---- MODULE Spec2Model ----
(***************************************************************************)
(* Model of edg::r! (src/src/lib.rs): several macro invocations, each in   *)
(* its own compiler process, share one staging directory (out_dir) that    *)
(* holds the lock marker, the staged sources edg-{hash}.rs and the         *)
(* executable edg_bin.                                                     *)
(*                                                                         *)
(* Environment: the arguments of the hosting compiler process and the path *)
(* of the staging directory are valid Unicode (so env::args() at line 97   *)
(* and to_str().unwrap() at line 133 do not panic), and nothing but the    *)
(* invocations themselves touches the staging directory.  The other        *)
(* failure branches of the source (match arms, expect, unwrap of           *)
(* from_utf8) are modelled, each with its own outcome.  The executable is   *)
(* one file: the name edg_bin{extra} looked up at lines 145-150 is the     *)
(* name the compiler wrote, as with cargo's `-C extra-filename=<suffix>`.   *)
(*                                                                         *)
(* Spec      the invocations of one batch, each running r once             *)
(* SpecFair  Spec, every invocation keeps taking the steps it can take     *)
(* SpecAgain compiler processes that start one r! after another            *)
(* SpecArgs  filter_rustc_args and merge_externs on every argument list    *)
(***************************************************************************)
EXTENDS Integers, Sequences, FiniteSets, TLC

\* ---- bounds ------------------------------------------------------------
NumProcs == 2
HashMod == 2
MaxOut == 1
MaxArgs == 5

Procs == 1..NumProcs

\* Body texts and declared types.  The code only copies them, compares
\* nothing but their hashes and file names, and never inspects them, so two
\* of each give every case: equal or different body, equal or different type.
Bodies == {1, 2}
Types == {1, 2}

\* ---- process output: byte strings and text -------------------------------
Bytes == {"4", "xFF"}

ByteStrings == UNION {[1..n -> Bytes] : n \in 0..MaxOut}

\* String::from_utf8: Ok(text) exactly when every byte is valid
from_utf8(b) ==
    IF \A k \in 1..Len(b) : b[k] # "xFF"
    THEN [ok |-> TRUE, text |-> [k \in 1..Len(b) |-> <<"char", b[k]>>]]
    ELSE [ok |-> FALSE, text |-> <<>>]

\* ---- the macro input -----------------------------------------------------
\* ty = 0 is ReturnType::Default (no `-> T` on the closure)
Inputs ==
    {[parses |-> FALSE, ty |-> 0, body |-> 1]}
        \cup [parses : {TRUE}, ty : {0} \cup Types, body : Bodies]

\* the invocation has not looked at its input yet
NoInput == [parses |-> FALSE, ty |-> 0, body |-> 0]

\* ---- staging directory contents ------------------------------------------
NoFile == <<"absent">>

\* DefaultHasher over the body text: deterministic, collisions possible
hash(code) == code % HashMod

file_Typed(in) == <<"edg-", hash(in.body + in.ty), ".rs">>

\* out_dir.join(format!("edg-{hash}.rs"))
file(in) == <<"edg-", hash(in.body), ".rs">>

FileNames == {<<"edg-", h, ".rs">> : h \in 0..(HashMod - 1)}

\* the synthesized main(): declared type and body text
main(in) == <<"fn main", in.ty, in.body>>

\* ---- tokens returned by the macro -----------------------------------------
NoTokens == <<"pending">>

compile_error(fstr, args) == <<"compile_error!", fstr, args>>

quote_Lossy(ty, comptime_expr) == <<"from_str", ty, <<>>, "expect", comptime_expr>>

\* quote!(::serde_json::from_str::<#ty>(#comptime_expr).expect(&format!(.., #comptime_expr)))
quote(ty, comptime_expr) == <<"from_str", ty, comptime_expr, "expect", comptime_expr>>

\* the transport codec: serde_json::to_string in the auxiliary program and
\* serde_json::from_str in the emitted expression (values are in unary)
to_string(v) == [k \in 1..v |-> <<"char", "4">>]

from_str(text) == Len(text)

\* print!("{ser}"): the bytes of the text on standard output
print(text) == [k \in 1..Len(text) |-> text[k][2]]

\* ---- the arguments of the build step ----------------------------------------
\* An argument is a string, written as the sequence of its pieces, so that
\* == , starts_with and ends_with are what they are on strings.
starts_with(arg, prefix) == Len(arg) > 0 /\ arg[1] = prefix

ends_with(arg, suffix) == Len(arg) > 0 /\ arg[Len(arg)] = suffix

\* env::args(): the path of the running compiler, then what it was given
ArgWords ==
    { <<"rustc">>, <<"-">>, <<"--crate-name">>, <<"--crate-type">>, <<"-o">>,
      <<"--extern">>, <<"--test">>, <<"--emit", "=link">>, <<"main", ".rs">>,
      <<"-O">>, <<"foo">> }

\* the argument lists with n arguments after the leading one
ArgLists(n) == { <<<<"/usr/bin/rustc">>>> \o t : t \in [1..n -> ArgWords] }

\* the arguments at the positions idx, in that order
Pick(args, idx) == [j \in 1..Len(idx) |-> args[idx[j]]]

\* the for loop of filter_rustc_args from argument k on; acc holds the
\* positions pushed to rustc_args so far
RECURSIVE filter_loop(_, _, _, _)
filter_loop(args, k, skip, acc) ==
    IF k > Len(args) THEN acc
    ELSE LET arg == args[k] IN
         IF arg = <<"-">> THEN filter_loop(args, k + 1, skip, acc)
         ELSE IF skip THEN filter_loop(args, k + 1, FALSE, acc)
         ELSE IF arg \in {<<"--crate-type">>, <<"--crate-name">>,
                          <<"--extern">>, <<"-o">>}
         THEN filter_loop(args, k + 1, TRUE, acc)
         ELSE IF \/ ends_with(arg, ".rs")
                 \/ arg = <<"--test">>
                 \/ arg = <<"rustc">>
                 \/ starts_with(arg, "--emit")
         THEN filter_loop(args, k + 1, skip, acc)
         ELSE filter_loop(args, k + 1, skip, Append(acc, k))

\* let mut skip = true; for arg in args { .. }: the positions kept
filter_kept(args) == filter_loop(args, 1, TRUE, <<>>)

filter_rustc_args(args) == Pick(args, filter_kept(args))

\* a loop that never resets found
RECURSIVE merge_loop_Sticky(_, _, _, _)
merge_loop_Sticky(args, k, found, acc) ==
    IF k > Len(args) THEN acc
    ELSE IF found THEN merge_loop_Sticky(args, k + 1, TRUE, Append(acc, k))
    ELSE IF args[k] = <<"--extern">> THEN merge_loop_Sticky(args, k + 1, TRUE, acc)
    ELSE merge_loop_Sticky(args, k + 1, found, acc)

\* the for loop of merge_externs from argument k on; acc holds the positions
\* of the arguments pushed after an "--extern"
RECURSIVE merge_loop(_, _, _, _)
merge_loop(args, k, found, acc) ==
    IF k > Len(args) THEN acc
    ELSE IF found THEN merge_loop(args, k + 1, FALSE, Append(acc, k))
    ELSE IF args[k] = <<"--extern">> THEN merge_loop(args, k + 1, TRUE, acc)
    ELSE merge_loop(args, k + 1, found, acc)

merge_taken_Sticky(args) == merge_loop_Sticky(args, 1, FALSE, <<>>)

\* let mut found = false; for arg in args { .. }: the positions emitted
merge_taken(args) == merge_loop(args, 1, FALSE, <<>>)

\* ret: "--extern" and the argument, for each position emitted
merge_externs(args) ==
    LET idx == merge_taken(args) IN
        [j \in 1..(2 * Len(idx)) |->
            IF j % 2 = 1 THEN <<"--extern">> ELSE args[idx[j \div 2]]]

\* the command line of the auxiliary compile: rustc.args(..) in order
rustc_command(args, out_dir, path) ==
    filter_rustc_args(args)
        \o << <<"--crate-name">>, <<"edg_bin">> >>
        \o << <<"--crate-type">>, <<"bin">> >>
        \o << <<"--out-dir">>, out_dir >>
        \o merge_externs(args)
        \o << path >>

\* lock      out_dir/lock: 0 when absent, else the invocation that created it
\* src       out_dir/edg-{hash}.rs for each hash: NoFile or the text written
\* exe       out_dir/edg_bin: NoFile or the binary of the source it was built from
\* pc        where each invocation is in r
\* input     r's parsed input (ty, body), from parse_macro_input! until r is left
\* staged    r's `file`, from fs::write until r is left
\* crun      r's compile_output, erun  r's comptime_output
\* outcome   how r was left, tokens  the TokenStream it returned
\* unlocks, compiles, execs  calls of unlock, of rustc and of edg_bin so far
VARIABLES lock, src, exe, pc, input, outcome, tokens,
          unlocks, compiles, execs, staged, crun, erun

\* args      env::args() of one build step whose argument handling is followed
\* kept      the positions of args that filter_rustc_args returned
\* taken     the positions of args that merge_externs returned after "--extern"
\* command   the arguments given to the auxiliary rustc
\* phase     how far the command line of that build step has been put together
VARIABLES args, kept, taken, command, phase

\* overtaken how often, while invocation i has been spinning in lock(), another
\*           invocation has got the marker: "no", "once" or "twice" (or more)
VARIABLES overtaken

dirvars == <<lock, src, exe, pc, input, outcome, tokens,
             unlocks, compiles, execs, staged, crun, erun>>

argvars == <<args, kept, taken, command, phase>>

vars == <<dirvars, argvars, overtaken>>

\* no std::process::Output held
NoRun == [status |-> "none", stdout |-> <<>>, stderr |-> <<>>]

\* no build step's argument handling is followed
NoArgs ==
    /\ args = <<>>
    /\ kept = <<>>
    /\ taken = <<>>
    /\ command = <<>>
    /\ phase = "none"

\* the staging directory before any invocation has run
DirInit ==
    /\ lock = 0
    /\ src = [f \in FileNames |-> NoFile]
    /\ exe = NoFile
    /\ pc = [i \in Procs |-> "lock"]
    /\ input = [i \in Procs |-> NoInput]
    /\ outcome = [i \in Procs |-> "running"]
    /\ tokens = [i \in Procs |-> NoTokens]
    /\ unlocks = [i \in Procs |-> 0]
    /\ compiles = [i \in Procs |-> 0]
    /\ execs = [i \in Procs |-> 0]
    /\ staged = [i \in Procs |-> NoFile]
    /\ crun = [i \in Procs |-> NoRun]
    /\ erun = [i \in Procs |-> NoRun]

\* nobody has been overtaken
NoHistory == overtaken = [i \in Procs |-> "no"]

Init == NoArgs /\ DirInit /\ NoHistory

\* ---- ways an invocation ends ----------------------------------------------
\* r is left: what it returns stays, its locals (input, file, compile_output,
\* comptime_output) are dropped
Leave(i, how, ts) ==
    /\ pc' = [pc EXCEPT ![i] = "done"]
    /\ outcome' = [outcome EXCEPT ![i] = how]
    /\ tokens' = [tokens EXCEPT ![i] = ts]
    /\ input' = [input EXCEPT ![i] = NoInput]
    /\ staged' = [staged EXCEPT ![i] = NoFile]
    /\ crun' = [crun EXCEPT ![i] = NoRun]
    /\ erun' = [erun EXCEPT ![i] = NoRun]

\* a panic unwinds out of r: no tokens
Panic(i, msg) == Leave(i, msg, NoTokens)

Return(i, how, ts) == Leave(i, how, ts)

\* unlock(dir): remove_file(lock).expect("unable to unlock"), then `rest`
unlock(i, rest) ==
    IF lock = 0
    THEN /\ Panic(i, "panic: unable to unlock")
         /\ UNCHANGED <<lock, unlocks>>
    ELSE /\ lock' = 0
         /\ unlocks' = [unlocks EXCEPT ![i] = @ + 1]
         /\ rest

err_NoUnlock(i, how, fstr, arg, unwrap) ==
    /\ UNCHANGED <<lock, unlocks>>
    /\ IF arg.ok
       THEN Return(i, how, compile_error(fstr, arg.text))
       ELSE Panic(i, unwrap)

\* err!(fstr, arg): unlock first, then format (the unwrap in arg may panic),
\* then return compile_error!
err(i, how, fstr, arg, unwrap) ==
    unlock(i, IF arg.ok
              THEN Return(i, how, compile_error(fstr, arg.text))
              ELSE Panic(i, unwrap))

NoArg == [ok |-> TRUE, text |-> <<>>]

\* ---- lock(dir) ------------------------------------------------------------
LockOk_Create(i) ==
    /\ pc[i] = "lock"
    /\ lock' = i
    /\ pc' = [pc EXCEPT ![i] = "parse"]
    /\ UNCHANGED <<src, exe, input, outcome, tokens, unlocks, compiles,
                   execs, staged, crun, erun>>

\* a lock that lets the waiters in in the order of their numbers
LockOk_InTurn(i) ==
    /\ pc[i] = "lock"
    /\ lock = 0
    /\ \A k \in Procs : k < i => pc[k] # "lock"
    /\ lock' = i
    /\ pc' = [pc EXCEPT ![i] = "parse"]
    /\ UNCHANGED <<src, exe, input, outcome, tokens, unlocks, compiles,
                   execs, staged, crun, erun>>

\* create_new(true).open(lock) succeeded
LockOk(i) ==
    /\ pc[i] = "lock"
    /\ lock = 0
    /\ lock' = i
    /\ pc' = [pc EXCEPT ![i] = "parse"]
    /\ UNCHANGED <<src, exe, input, outcome, tokens, unlocks, compiles,
                   execs, staged, crun, erun>>

\* a waiter that takes the marker for stale and removes it
LockSpin_Steal(i) ==
    /\ pc[i] = "lock"
    /\ lock # 0
    /\ lock' = 0
    /\ UNCHANGED <<src, exe, pc, input, outcome, tokens, unlocks, compiles,
                   execs, staged, crun, erun, argvars, overtaken>>

\* ErrorKind::AlreadyExists: spin and retry
LockSpin(i) ==
    /\ pc[i] = "lock"
    /\ lock # 0
    /\ UNCHANGED vars

\* an open that fails after it has created the marker
LockPanic_Held(i) ==
    /\ pc[i] = "lock"
    /\ lock = 0
    /\ Panic(i, "panic: unable to create lock")
    /\ lock' = i
    /\ UNCHANGED <<src, exe, unlocks, compiles, execs>>

\* any other error of the open
LockPanic(i) ==
    /\ pc[i] = "lock"
    /\ lock = 0
    /\ Panic(i, "panic: unable to create lock")
    /\ UNCHANGED <<lock, src, exe, unlocks, compiles, execs>>

\* ---- parse_macro_input!(input as ExprClosure) -------------------------------
\* a syn error returns its compile_error! tokens straight from r
Parse(i) ==
    /\ pc[i] = "parse"
    /\ \E in \in Inputs :
         IF ~in.parses
         THEN Return(i, "parse error", compile_error("syn", <<>>))
         ELSE /\ input' = [input EXCEPT ![i] = in]
              /\ pc' = [pc EXCEPT ![i] = "parsed"]
              /\ UNCHANGED <<outcome, tokens, staged, crun, erun>>
    /\ UNCHANGED <<lock, src, exe, unlocks, compiles, execs>>

\* ---- match input.output { ReturnType::Default => err!(..), .. } ------------
ReturnTypeOf_Skipped(i) ==
    /\ pc[i] = "parsed"
    /\ pc' = [pc EXCEPT ![i] = "write"]
    /\ UNCHANGED <<lock, unlocks, input, outcome, tokens, staged, crun, erun>>
    /\ UNCHANGED <<src, exe, compiles, execs>>

ReturnTypeOf(i) ==
    /\ pc[i] = "parsed"
    /\ IF input[i].ty = 0
       THEN err(i, "usage error", "specify return type of closure", NoArg,
                "unreachable")
       ELSE /\ pc' = [pc EXCEPT ![i] = "write"]
            /\ UNCHANGED <<lock, unlocks, input, outcome, tokens, staged,
                           crun, erun>>
    /\ UNCHANGED <<src, exe, compiles, execs>>

\* a write that leaves a file of that name as it finds it
Write_KeepExisting(i) ==
    /\ pc[i] = "write"
    /\ \/ /\ src' = IF src[file(input[i])] = NoFile
                     THEN [src EXCEPT ![file(input[i])] = main(input[i])]
                     ELSE src
          /\ staged' = [staged EXCEPT ![i] = file(input[i])]
          /\ pc' = [pc EXCEPT ![i] = "compile"]
          /\ UNCHANGED <<input, outcome, tokens, crun, erun>>
       \/ /\ Panic(i, "panic: could not write file")
          /\ src' = src
    /\ UNCHANGED <<lock, exe, unlocks, compiles, execs>>

\* ---- std::fs::write(&file, main).expect("could not write file") ------------
Write(i) ==
    /\ pc[i] = "write"
    /\ \/ /\ src' = [src EXCEPT ![file(input[i])] = main(input[i])]
          /\ staged' = [staged EXCEPT ![i] = file(input[i])]
          /\ pc' = [pc EXCEPT ![i] = "compile"]
          /\ UNCHANGED <<input, outcome, tokens, crun, erun>>
       \/ /\ Panic(i, "panic: could not write file")
          /\ src' = src
    /\ UNCHANGED <<lock, exe, unlocks, compiles, execs>>

\* ---- rustc ... file; rustc.output().expect("could not invoke rustc") -------
\* a failing compiler leaves the directory alone; a successful one has read
\* the staged file and written the executable.  After a non-zero exit only
\* stderr is read; after a zero exit both streams are only printed, alike, so
\* one of them is left empty.
Compile(i) ==
    /\ pc[i] = "compile"
    /\ \/ /\ Panic(i, "panic: could not invoke rustc")
          /\ UNCHANGED <<exe, compiles>>
       \/ /\ compiles' = [compiles EXCEPT ![i] = @ + 1]
          /\ pc' = [pc EXCEPT ![i] = "compiled"]
          /\ UNCHANGED <<input, staged, outcome, tokens, erun>>
          /\ \/ \E er \in ByteStrings :
                  /\ crun' = [crun EXCEPT ![i] =
                        [status |-> "nonzero", stdout |-> <<>>, stderr |-> er]]
                  /\ exe' = exe
             \/ \E out \in ByteStrings, er \in ByteStrings :
                  /\ src[staged[i]] # NoFile
                  /\ out = <<>> \/ er = <<>>
                  /\ crun' = [crun EXCEPT ![i] =
                        [status |-> "zero", stdout |-> out, stderr |-> er]]
                  /\ exe' = <<"bin", src[staged[i]]>>
    /\ UNCHANGED <<lock, src, unlocks, execs>>

\* ---- if !compile_output.status.success() { err! }; print!; print! ----------
CompileCheck(i) ==
    /\ pc[i] = "compiled"
    /\ IF crun[i].status # "zero"
       THEN err(i, "compile error", "could not compile comptime expr",
                from_utf8(crun[i].stderr), "panic: compile stderr not utf8")
       ELSE /\ UNCHANGED <<lock, unlocks>>
            /\ IF from_utf8(crun[i].stdout).ok /\ from_utf8(crun[i].stderr).ok
               THEN /\ pc' = [pc EXCEPT ![i] = "execute"]
                    /\ crun' = [crun EXCEPT ![i] =
                          [status |-> "zero", stdout |-> <<>>, stderr |-> <<>>]]
                    /\ UNCHANGED <<input, staged, outcome, tokens, erun>>
               ELSE Panic(i, "panic: compile output not utf8")
    /\ UNCHANGED <<src, exe, compiles, execs>>

\* ---- Command::new(&out).output().expect("could not invoke edg_bin") --------
\* only the stream the code reads afterwards is kept: stderr after a
\* non-zero exit, stdout after a zero exit
Execute(i) ==
    /\ pc[i] = "execute"
    /\ \/ /\ Panic(i, "panic: could not invoke edg_bin")
          /\ UNCHANGED execs
       \/ /\ exe # NoFile
          /\ execs' = [execs EXCEPT ![i] = @ + 1]
          /\ pc' = [pc EXCEPT ![i] = "executed"]
          /\ UNCHANGED <<input, staged, outcome, tokens, crun>>
          /\ \/ \E er \in ByteStrings :
                  erun' = [erun EXCEPT ![i] =
                     [status |-> "nonzero", stdout |-> <<>>, stderr |-> er]]
             \/ \E out \in ByteStrings :
                  erun' = [erun EXCEPT ![i] =
                     [status |-> "zero", stdout |-> out, stderr |-> <<>>]]
    /\ UNCHANGED <<lock, src, exe, unlocks, compiles>>

\* ---- status check, then String::from_utf8(comptime_output.stdout) ----------
RunCheck(i) ==
    /\ pc[i] = "executed"
    /\ IF erun[i].status # "zero"
       THEN err(i, "execution error", "could not run comptime expr",
                from_utf8(erun[i].stderr), "panic: run stderr not utf8")
       ELSE IF ~from_utf8(erun[i].stdout).ok
       THEN err(i, "encoding error", "comptime expr output was not utf8",
                NoArg, "unreachable")
       ELSE /\ pc' = [pc EXCEPT ![i] = "rmsrc"]
            /\ UNCHANGED <<lock, unlocks, input, staged, outcome, tokens,
                           crun, erun>>
    /\ UNCHANGED <<src, exe, compiles, execs>>

\* ---- _ = remove_file(file); _ = remove_file(out) (errors ignored) ----------
RemoveSrc_Unlocked(i) ==
    /\ pc[i] = "rmsrc"
    /\ lock' = 0
    /\ \/ src' = [src EXCEPT ![staged[i]] = NoFile]
       \/ src' = src
    /\ pc' = [pc EXCEPT ![i] = "rmexe"]
    /\ UNCHANGED <<exe, input, outcome, tokens, unlocks, compiles,
                   execs, staged, crun, erun>>

\* a deletion whose failure is fatal
RemoveSrc_Fatal(i) ==
    /\ pc[i] = "rmsrc"
    /\ \/ /\ src' = [src EXCEPT ![staged[i]] = NoFile]
          /\ pc' = [pc EXCEPT ![i] = "rmexe"]
          /\ UNCHANGED <<input, outcome, tokens, staged, crun, erun>>
       \/ /\ src' = src
          /\ Panic(i, "panic: could not remove file")
    /\ UNCHANGED <<lock, exe, unlocks, compiles, execs>>

RemoveSrc(i) ==
    /\ pc[i] = "rmsrc"
    /\ \/ src' = [src EXCEPT ![staged[i]] = NoFile]
       \/ src' = src
    /\ pc' = [pc EXCEPT ![i] = "rmexe"]
    /\ UNCHANGED <<lock, exe, input, outcome, tokens, unlocks, compiles,
                   execs, staged, crun, erun>>

RemoveExe(i) ==
    /\ pc[i] = "rmexe"
    /\ \/ exe' = NoFile
       \/ exe' = exe
    /\ pc' = [pc EXCEPT ![i] = "unlock"]
    /\ UNCHANGED <<lock, src, input, outcome, tokens, unlocks, compiles,
                   execs, staged, crun, erun>>

\* ---- unlock(&out_dir); quote!(...) ----------------------------------------
Finish(i) ==
    /\ pc[i] = "unlock"
    /\ unlock(i, Return(i, "success",
                        quote(input[i].ty, from_utf8(erun[i].stdout).text)))
    /\ UNCHANGED <<src, exe, compiles, execs>>

\* the invocations of one batch: each runs r once
Next ==
    \E i \in Procs :
        \/ LockOk(i) /\ UNCHANGED <<argvars, overtaken>>
        \/ LockSpin(i)
        \/ LockPanic(i) /\ UNCHANGED <<argvars, overtaken>>
        \/ Parse(i) /\ UNCHANGED <<argvars, overtaken>>
        \/ ReturnTypeOf(i) /\ UNCHANGED <<argvars, overtaken>>
        \/ Write(i) /\ UNCHANGED <<argvars, overtaken>>
        \/ Compile(i) /\ UNCHANGED <<argvars, overtaken>>
        \/ CompileCheck(i) /\ UNCHANGED <<argvars, overtaken>>
        \/ Execute(i) /\ UNCHANGED <<argvars, overtaken>>
        \/ RunCheck(i) /\ UNCHANGED <<argvars, overtaken>>
        \/ RemoveSrc(i) /\ UNCHANGED <<argvars, overtaken>>
        \/ RemoveExe(i) /\ UNCHANGED <<argvars, overtaken>>
        \/ Finish(i) /\ UNCHANGED <<argvars, overtaken>>

Spec == Init /\ [][Next]_vars

\* ---- compiler processes that expand one r! after another --------------------
\* the next r! of the compiler process whose last one has ended
Again(i) ==
    /\ pc[i] = "done"
    /\ pc' = [pc EXCEPT ![i] = "lock"]
    /\ outcome' = [outcome EXCEPT ![i] = "running"]
    /\ tokens' = [tokens EXCEPT ![i] = NoTokens]
    /\ unlocks' = [unlocks EXCEPT ![i] = 0]
    /\ compiles' = [compiles EXCEPT ![i] = 0]
    /\ execs' = [execs EXCEPT ![i] = 0]
    /\ UNCHANGED <<lock, src, exe, input, staged, crun, erun>>

Once(n) == IF n = "no" THEN "once" ELSE "twice"

\* invocation i got the marker: the other spinning ones were overtaken
Overtakes(i) ==
    overtaken' = [k \in Procs |->
                    IF k # i /\ pc[k] = "lock" THEN Once(overtaken[k]) ELSE "no"]

NextAgain ==
    \E i \in Procs :
        \/ LockOk(i) /\ Overtakes(i) /\ UNCHANGED argvars
        \/ LockSpin(i)
        \/ LockPanic(i) /\ overtaken' = [overtaken EXCEPT ![i] = "no"]
                        /\ UNCHANGED argvars
        \/ Parse(i) /\ UNCHANGED <<argvars, overtaken>>
        \/ ReturnTypeOf(i) /\ UNCHANGED <<argvars, overtaken>>
        \/ Write(i) /\ UNCHANGED <<argvars, overtaken>>
        \/ Compile(i) /\ UNCHANGED <<argvars, overtaken>>
        \/ CompileCheck(i) /\ UNCHANGED <<argvars, overtaken>>
        \/ Execute(i) /\ UNCHANGED <<argvars, overtaken>>
        \/ RunCheck(i) /\ UNCHANGED <<argvars, overtaken>>
        \/ RemoveSrc(i) /\ UNCHANGED <<argvars, overtaken>>
        \/ RemoveExe(i) /\ UNCHANGED <<argvars, overtaken>>
        \/ Finish(i) /\ UNCHANGED <<argvars, overtaken>>
        \/ Again(i) /\ UNCHANGED <<argvars, overtaken>>

SpecAgain == Init /\ [][NextAgain]_vars

\* ---- one build step's argument handling, on every argument list -------------
InitArgs ==
    /\ DirInit
    /\ NoHistory
    /\ \E n \in 0..(MaxArgs - 1) : args \in ArgLists(n)
    /\ kept = <<>>
    /\ taken = <<>>
    /\ command = <<>>
    /\ phase = "args"

\* rustc.args(filter_rustc_args(&args))
FilterArgs ==
    /\ phase = "args"
    /\ kept' = filter_kept(args)
    /\ phase' = "filtered"
    /\ UNCHANGED <<args, taken, command>>

\* rustc.args(merge_externs(&args))
MergeExterns ==
    /\ phase = "filtered"
    /\ taken' = merge_taken(args)
    /\ phase' = "merged"
    /\ UNCHANGED <<args, kept, command>>

\* rustc.arg(file): the command line is complete
CommandLine ==
    /\ phase = "merged"
    /\ command' = rustc_command(args, <<"target">>, <<"target/edg-0", ".rs">>)
    /\ phase' = "built"
    /\ UNCHANGED <<args, kept, taken>>

NextArgs ==
    \/ FilterArgs /\ UNCHANGED <<dirvars, overtaken>>
    \/ MergeExterns /\ UNCHANGED <<dirvars, overtaken>>
    \/ CommandLine /\ UNCHANGED <<dirvars, overtaken>>

SpecArgs == InitArgs /\ [][NextArgs]_vars

\* ---- properties ------------------------------------------------------------
Done(i) == pc[i] = "done"

\* between the return of lock() and the unlock that ends the cycle
InCycle(i) ==
    pc[i] \in {"parse", "parsed", "write", "compile", "compiled", "execute", "executed",
               "rmsrc", "rmexe", "unlock"}

\* the invocation that takes the step
Acts(i) == pc'[i] # pc[i]

TextOf(b) == from_utf8(b).text

Diagnosed == {"compile error", "execution error", "encoding error"}

\* the compiler or the executable failed and the unwrap inside err! panicked
FailedThenPanicked ==
    {"panic: compile stderr not utf8", "panic: run stderr not utf8"}

\* C1: whatever the interleaving, at most one invocation is between lock()
\* and its release, and while one is there the marker in the directory is
\* the one it created; so (stage, compile, execute, cleanup) cycles never
\* overlap.
C1_MutualExclusion ==
    \A i \in Procs :
        InCycle(i) => /\ lock = i
                      /\ \A j \in Procs \ {i} : ~InCycle(j)

C1_Witness ==
    \E i \in Procs : \E j \in Procs \ {i} :
        /\ pc[i] = "compile"
        /\ pc[j] = "lock"
        /\ lock = i

\* C2: every invocation that ends after it acquired the lock, on whatever
\* failure (parse failure and infrastructure failures included), has released
\* it: no invocation is done while the marker it created is still there.
C2_ReleasedOnEveryFailure ==
    \A i \in Procs : Done(i) => lock # i

\* C3: an invocation that ends in success, compile failure, execute failure
\* or encoding failure has released the lock exactly once and its marker is
\* gone; no invocation ever releases twice.
C3_ReleasedExactlyOnce ==
    \A i \in Procs :
        /\ unlocks[i] <= 1
        /\ (Done(i) /\ outcome[i] \in
                Diagnosed \cup FailedThenPanicked \cup {"success"})
              => (unlocks[i] = 1 /\ lock # i)

C3_Witness ==
    \E i \in Procs :
        /\ Done(i)
        /\ outcome[i] = "compile error"
        /\ unlocks[i] = 1
        /\ \E j \in Procs : Done(j) /\ outcome[j] = "success" /\ unlocks[j] = 1

\* C4: an invocation that staged a source and ends in success, compile
\* failure, execute failure or encoding failure has, when it ends, deleted
\* the staged source and, if it compiled one, the executable.
C4_ArtifactsDeleted ==
    [][\A i \in Procs :
          ( /\ Acts(i)
            /\ pc'[i] = "done"
            /\ staged[i] # NoFile
            /\ outcome'[i] \in Diagnosed \cup {"success"} )
              => /\ src'[staged[i]] = NoFile
                 /\ crun[i].status = "zero" => exe' = NoFile]_vars

\* the positions whose step writes or deletes in the staging directory or
\* runs the compiler or the executable there
TouchPcs == {"write", "compile", "execute", "rmsrc", "rmexe"}

\* C5: every step of an invocation that stages, compiles, executes or deletes
\* is taken while the marker is the invocation's own and leaves the marker in
\* place, and nothing else changes the staged files: the lock is acquired
\* before the staging and released only after the deletions.
C5_TouchesOnlyUnderLock ==
    [][/\ \A i \in Procs :
             (Acts(i) /\ pc[i] \in TouchPcs) => (lock = i /\ lock' = i)
       /\ (src' # src \/ exe' # exe) =>
             \E i \in Procs : Acts(i) /\ pc[i] \in TouchPcs /\ lock = i]_vars

C5_Witness ==
    \E i \in Procs :
        /\ pc[i] = "unlock"
        /\ lock = i
        /\ execs[i] = 1
        /\ src[staged[i]] = NoFile
        /\ exe = NoFile

\* C6: an invocation whose compiler run exited non-zero ends at once with the
\* compile-error diagnostic that carries the captured stderr, with the lock
\* released, without having run the executable and having run the compiler
\* once.
C6_CompileFailureEnds ==
    [][\A i \in Procs :
          (pc[i] = "compiled" /\ crun[i].status = "nonzero" /\ Acts(i)) =>
              /\ pc'[i] = "done"
              /\ execs'[i] = 0
              /\ compiles'[i] = 1
              /\ lock' # i
              /\ outcome'[i] = "compile error"
              /\ tokens'[i] = compile_error("could not compile comptime expr",
                                            TextOf(crun[i].stderr))
              /\ print(tokens'[i][3]) = crun[i].stderr]_vars

\* C7: an invocation whose closure has no return type ends, in its next step
\* after parsing, with the usage diagnostic; it has written no file and run
\* no compiler or executable, the step changes no file, and it releases the
\* lock.
C7_NoTypeFailsEarly ==
    [][\A i \in Procs :
          (pc[i] = "parsed" /\ input[i].ty = 0 /\ Acts(i)) =>
              /\ pc'[i] = "done"
              /\ outcome'[i] = "usage error"
              /\ tokens'[i] =
                   compile_error("specify return type of closure", <<>>)
              /\ staged[i] = NoFile
              /\ src' = src /\ exe' = exe
              /\ compiles'[i] = 0
              /\ execs'[i] = 0
              /\ lock = i
              /\ unlocks'[i] = 1
              /\ lock' = 0]_vars

C7_Witness ==
    \E i \in Procs :
        /\ Done(i)
        /\ outcome[i] = "usage error"
        /\ unlocks[i] = 1
        /\ \A f \in FileNames : src[f] = NoFile
        /\ exe = NoFile
        /\ lock = 0

\* C8: after a successful compile and a run of the executable, a non-zero exit
\* gives the execution-error diagnostic with the stderr; a zero exit with
\* stdout that is not valid text gives the encoding-error diagnostic; any
\* other run goes on to cleanup and success; each failure leaves the lock
\* released, and the three diagnostics differ pairwise.
C8_OutcomeByFirstFailingCheck ==
    [][\A i \in Procs :
          /\ (pc[i] = "executed" /\ Acts(i)) =>
               /\ erun[i].status = "nonzero" =>
                    /\ outcome'[i] = "execution error"
                    /\ tokens'[i] = compile_error("could not run comptime expr",
                                                  TextOf(erun[i].stderr))
                    /\ print(tokens'[i][3]) = erun[i].stderr
                    /\ lock' # i
               /\ (erun[i].status = "zero" /\ ~from_utf8(erun[i].stdout).ok) =>
                    /\ outcome'[i] = "encoding error"
                    /\ tokens'[i] =
                         compile_error("comptime expr output was not utf8", <<>>)
                    /\ lock' # i
               /\ (erun[i].status = "zero" /\ from_utf8(erun[i].stdout).ok) =>
                    pc'[i] = "rmsrc"
          /\ (pc[i] = "unlock" /\ Acts(i)) => outcome'[i] = "success"
          /\ \A j \in Procs :
               (outcome'[i] \in Diagnosed /\ outcome'[j] \in Diagnosed
                  /\ outcome'[i] # outcome'[j]) => tokens'[i][2] # tokens'[j][2]
      ]_vars

\* C9: the expression emitted on success is the deserialize call for the
\* declared type on exactly the text captured from the executable's stdout
\* (the same text in its error message), so when the executable printed the
\* serialization of v the emitted call yields v.
C9_RoundTrip ==
    [][\A i \in Procs :
          (Acts(i) /\ outcome'[i] = "success") =>
              /\ tokens'[i][1] = "from_str"
              /\ tokens'[i][2] = input[i].ty
              /\ print(tokens'[i][3]) = erun[i].stdout
              /\ tokens'[i][5] = tokens'[i][3]
              /\ \A v \in 0..MaxOut :
                   erun[i].stdout = print(to_string(v))
                       => from_str(tokens'[i][3]) = v]_vars

C9_Witness ==
    \E i \in Procs :
        /\ Done(i)
        /\ outcome[i] = "success"
        /\ tokens[i][3] = to_string(1)
        /\ from_str(tokens[i][3]) = 1

\* C10: an invocation stages its body under the file name a source with the
\* same body text already has in the directory, whatever the declared types;
\* and an invocation that succeeds with the declared type and the captured
\* output of an earlier successful one emits the same expression as that one.
C10_Deterministic ==
    [][\A j \in Procs :
          /\ (pc[j] = "write" /\ staged'[j] # NoFile) =>
                \A f \in FileNames :
                    (src[f] # NoFile /\ src[f][3] = input[j].body)
                        => staged'[j] = f
          /\ \A i \in Procs :
                (Done(i) /\ outcome[i] = "success"
                   /\ Acts(j) /\ outcome'[j] = "success"
                   /\ tokens[i][2] = input[j].ty
                   /\ print(tokens[i][3]) = erun[j].stdout)
                   => tokens'[j] = tokens[i]]_vars

C10_Witness ==
    \E i \in Procs : \E j \in Procs \ {i} :
        /\ Done(i) /\ Done(j)
        /\ outcome[i] = "success" /\ outcome[j] = "success"
        /\ tokens[i] = tokens[j]
        /\ tokens[i][3] # <<>>
        /\ \E f \in FileNames : src[f] # NoFile /\ src[f][2] = tokens[j][2]
\* C14: the marker is removed only by the invocation that created it, while
\* that invocation holds it; a release never finds the marker missing, so no
\* invocation ends in the "unable to unlock" abort.
C14_OnlyHolderReleases ==
    [][ /\ (lock # 0 /\ lock' = 0) =>
              (InCycle(lock) /\ unlocks'[lock] = unlocks[lock] + 1)
        /\ \A i \in Procs :
              /\ unlocks'[i] # unlocks[i] => (lock = i /\ lock' = 0)
              /\ outcome'[i] # "panic: unable to unlock" ]_vars

C14_Witness ==
    /\ lock = 0
    /\ \A i \in Procs : Done(i) /\ unlocks[i] = 1

C16_LeftoversDoNotBlock ==
    [][ \A i \in Procs :
          /\ (pc[i] = "write" /\ pc'[i] = "compile") =>
                src'[file(input[i])] = main(input[i])
          /\ (pc[i] = "compile" /\ pc'[i] = "compiled"
                  /\ crun'[i].status = "zero") =>
                exe' = <<"bin", main(input[i])>>
          /\ (pc[i] = "rmsrc" /\ Acts(i)) => pc'[i] = "rmexe"
          /\ (pc[i] = "rmexe" /\ Acts(i)) => pc'[i] = "unlock"
          /\ (pc[i] = "unlock" /\ Acts(i)) =>
                (outcome'[i] = "success" /\ lock' = 0) ]_vars

\* an earlier invocation failed at execution and left its source and the
\* executable; a later one staged under the same name (no other source file
\* exists), got through compile and execute, failed to delete both, and is
\* about to release
C16_Witness ==
    \E i, j \in Procs :
        /\ outcome[j] = "execution error"
        /\ pc[i] = "unlock"
        /\ lock = i
        /\ src[staged[i]] # NoFile
        /\ exe # NoFile
        /\ \A f \in FileNames \ {staged[i]} : src[f] = NoFile
        /\ \A k \in Procs \ {i, j} : pc[k] = "lock"

\* C18: whatever the interleaving and whatever earlier invocations left
\* behind, the compiler of an invocation reads, under the invocation's own
\* file name, the source made from its own type and body, and the executable
\* an invocation runs is the one its own compile produced from that source.
C18_Provenance ==
    [][ \A i \in Procs :
          /\ (pc[i] = "compile" /\ pc'[i] = "compiled") =>
                /\ staged[i] = file(input[i])
                /\ src[staged[i]] = main(input[i])
          /\ (pc[i] = "execute" /\ pc'[i] = "executed") =>
                exe = <<"bin", main(input[i])>> ]_vars

\* an invocation has staged its source and is about to compile while the
\* executable in the directory is a leftover built from the same body with
\* another declared type
C18_Witness ==
    \E i \in Procs :
        /\ pc[i] = "compile"
        /\ exe # NoFile
        /\ exe[2][3] = input[i].body
        /\ exe[2][2] # input[i].ty

SpecFair == Spec /\ \A i \in Procs : WF_vars(Next /\ Acts(i))

\* C20: for the invocations of one batch, (1) whenever the marker is absent
\* and an invocation is waiting in lock(), the marker is eventually taken (or
\* nobody is left waiting); (2) under fair scheduling, when the invocations
\* end in success, usage error, parse failure, compile, execute or encoding
\* failure, in whatever mix, every one of them ends and from then on the
\* directory holds no marker.
C20_Progress ==
    /\ [](  (lock = 0 /\ \E i \in Procs : pc[i] = "lock")
              => <>(lock # 0 \/ \A i \in Procs : pc[i] # "lock"))
    /\ [](\A i \in Procs :
              outcome[i] \in Diagnosed \cup {"running", "success", "parse error",
                                           "usage error"})
          => <>[]((\A i \in Procs : Done(i)) /\ lock = 0)

\* ---- properties of the argument handling -----------------------------------
\* How the compiler itself reads an argument list: these flags take the next
\* argument as their value, whatever that argument is.
ValueFlags == {<<"--crate-name">>, <<"--crate-type">>, <<"-o">>, <<"--extern">>}

OverriddenFlags == {<<"--crate-name">>, <<"--crate-type">>, <<"-o">>}

\* position k holds a value-taking flag (and is not itself a flag's value)
RECURSIVE IsFlagAt(_, _)
IsFlagAt(as, k) ==
    /\ k >= 2
    /\ k <= Len(as)
    /\ as[k] \in ValueFlags
    /\ ~(k >= 3 /\ IsFlagAt(as, k - 1))

\* position k holds the value of a flag of the set flags
IsValueOf(as, k, flags) ==
    k >= 3 /\ k <= Len(as) /\ IsFlagAt(as, k - 1) /\ as[k - 1] \in flags

IsValueAt(as, k) == IsValueOf(as, k, ValueFlags)

IsSourceFile(as, k) == ~IsValueAt(as, k) /\ ends_with(as[k], ".rs")

IsTestFlag(as, k) == ~IsValueAt(as, k) /\ as[k] = <<"--test">>

IsEmitFlag(as, k) == ~IsValueAt(as, k) /\ starts_with(as[k], "--emit")

\* the positions a sequence of positions holds
Range(idx) == {idx[j] : j \in 1..Len(idx)}

Filtered == phase \in {"filtered", "merged", "built"}

Merged == phase \in {"merged", "built"}

\* C11: the result of filter_rustc_args holds none of: the leading argument,
\* a source file, a crate-name / crate-type / output-path flag or the value
\* that follows it, a test-mode flag, an emission-format flag.
C11_FilterDrops ==
    Filtered =>
        \A k \in Range(kept) :
            /\ k # 1
            /\ ~IsSourceFile(args, k)
            /\ ~(IsFlagAt(args, k) /\ args[k] \in OverriddenFlags)
            /\ ~IsValueOf(args, k, OverriddenFlags)
            /\ ~IsTestFlag(args, k)
            /\ ~IsEmitFlag(args, k)

\* strictly increasing positions: each at most once, in the original order
Ascending(idx) == \A j \in 1..(Len(idx) - 1) : idx[j] < idx[j + 1]

\* position k holds an argument of none of the dropped kinds. "-" (the source
\* is standard input) counts as naming the source, and the bare word "rustc"
\* that a wrapper is handed counts as the toolchain's own name.
PassesThrough(as, k) ==
    /\ k >= 2
    /\ k <= Len(as)
    /\ ~IsFlagAt(as, k)
    /\ ~IsValueAt(as, k)
    /\ ~ends_with(as[k], ".rs")
    /\ as[k] \notin {<<"--test">>, <<"-">>, <<"rustc">>}
    /\ ~starts_with(as[k], "--emit")

\* C12: every argument that is not the leading one and is of none of the
\* dropped kinds is in the result of filter_rustc_args exactly once,
\* unchanged and in its original relative order.
C12_FilterPassesThrough ==
    Filtered =>
        /\ Ascending(kept)
        /\ \A k \in 1..Len(args) : PassesThrough(args, k) => k \in Range(kept)

\* position k holds an external-binding flag: an "--extern" that is not itself
\* the argument taken by the "--extern" before it
RECURSIVE IsExternAt(_, _)
IsExternAt(as, k) ==
    /\ k >= 1
    /\ k <= Len(as)
    /\ as[k] = <<"--extern">>
    /\ ~(k >= 2 /\ IsExternAt(as, k - 1))

\* "--extern" and the argument, for each of the positions idx
ExternPairs(as, idx) ==
    [j \in 1..(2 * Len(idx)) |->
        IF j % 2 = 1 THEN <<"--extern">> ELSE as[idx[j \div 2]]]

C19_FilterMergeAgree ==
    Merged =>
        /\ Range(kept) \cap Range(taken) = {}
        /\ \A k \in 2..(Len(args) - 1) :
              (IsFlagAt(args, k) /\ args[k] = <<"--extern">>)
                  => (k + 1) \in Range(taken)

====
